---- MODULE Spec2Model ----
(***************************************************************************)
(* Model of V1.0/src/Scrapping.js: the review extractor and the pagination *)
(* driver (processAllPages, waitForPageLoad, scrapCurrentPageOnly), run     *)
(* against an external rendering surface whose content is replaced          *)
(* asynchronously after a navigation click.                                 *)
(*                                                                          *)
(* JavaScript runs one task at a time: everything between two awaits of     *)
(* processAllPages is one atomic step.  The steps are the call itself (up   *)
(* to the first await), each firing of the checkLoaded timer, and the       *)
(* firing of the pacing timer.                                              *)
(***************************************************************************)
EXTENDS Integers, Sequences, FiniteSets, TLC

(***************************************************************************)
(* Program constants                                                        *)
(***************************************************************************)
MAX_PAGES == 20

maxAttempts == 30

(***************************************************************************)
(* Bounds of the model                                                      *)
(***************************************************************************)
\* accepted processAllPages runs in one behaviour
MaxRuns == 2

\* load waits of one behaviour that end while the clicked content has still
\* not arrived (the surface answers later than the wait lasts)
MaxRaces == 2

(***************************************************************************)
(* Text.  A string is a sequence of characters; Absent stands for a         *)
(* selector that matches no element (querySelector returns null).           *)
(***************************************************************************)
Absent == <<"#null">>

WhiteSpace == {" ", "\t", "\n"}

IsSpace(c) == c \in WhiteSpace

RECURSIVE TrimLeft(_)
TrimLeft(s) ==
    IF s = <<>> THEN <<>>
    ELSE IF IsSpace(Head(s)) THEN TrimLeft(Tail(s)) ELSE s

RECURSIVE TrimRight(_)
TrimRight(s) ==
    IF s = <<>> THEN <<>>
    ELSE IF IsSpace(s[Len(s)]) THEN TrimRight(SubSeq(s, 1, Len(s) - 1)) ELSE s

\* String.prototype.trim
Trim(s) == TrimRight(TrimLeft(s))

\* replace(/\s+/g, ' '): every maximal run of white space becomes one space
RECURSIVE Collapse(_)
Collapse(s) ==
    IF s = <<>> THEN <<>>
    ELSE IF IsSpace(Head(s))
         THEN <<" ">> \o Collapse(TrimLeft(s))
         ELSE <<Head(s)>> \o Collapse(Tail(s))

\* cleanText: text ? text.trim().replace(/\s+/g, ' ') : ''
cleanText(text) ==
    IF text = Absent \/ text = <<>> THEN <<>> ELSE Collapse(Trim(text))

(***************************************************************************)
(* Rating text: match(/([0-9],[0-9]|[0-9])/) then parseFloat of the match   *)
(* with ',' replaced by '.'.  A rating is held in tenths (4.5 is 45);       *)
(* NoNote is the '' the field keeps when nothing matches.                   *)
(***************************************************************************)
NoNote == -1

Digits == {"0", "1", "2", "3", "4", "5", "6", "7", "8", "9"}

DigitVal(c) ==
    CASE c = "0" -> 0 [] c = "1" -> 1 [] c = "2" -> 2 [] c = "3" -> 3
      [] c = "4" -> 4 [] c = "5" -> 5 [] c = "6" -> 6 [] c = "7" -> 7
      [] c = "8" -> 8 [] c = "9" -> 9

\* the leftmost match; at one position the alternative [0-9],[0-9] is tried first
RECURSIVE parseNote(_)
parseNote(s) ==
    IF s = <<>> THEN NoNote
    ELSE IF Head(s) \in Digits
         THEN IF Len(s) >= 3 /\ s[2] = "," /\ s[3] \in Digits
              THEN 10 * DigitVal(s[1]) + DigitVal(s[3])
              ELSE 10 * DigitVal(s[1])
         ELSE parseNote(Tail(s))

(***************************************************************************)
(* Selector fallback: the element texts found by the ordered candidates of  *)
(* one field; the first candidate that matches wins.                        *)
(***************************************************************************)
RECURSIVE FirstMatch(_)
FirstMatch(cands) ==
    IF cands = <<>> THEN Absent
    ELSE IF Head(cands) # Absent THEN Head(cands) ELSE FirstMatch(Tail(cands))

(***************************************************************************)
(* The rendering surface.  A review container is an element with its        *)
(* markers (data-hook="review", CSS classes) and, per field, the text of    *)
(* the element each selector candidate finds in it.  Extracting a container *)
(* whose throws flag is set raises inside the per-container try block.      *)
(***************************************************************************)
None3 == <<Absent, Absent, Absent>>

Box(hook, classes, title, body, rating, badge) ==
    [hook |-> hook, classes |-> classes, throws |-> FALSE,
     rating |-> rating, title |-> title, body |-> body,
     date |-> <<" ", "d", "1">>, author |-> <<Absent, <<"a", "n">> >>,
     badge |-> badge]

\* a container in the primary markup, title and body under the first candidates
Std(title, body, rating, badge) ==
    Box(TRUE, {"a-section", "review"}, <<title, Absent, Absent>>,
        <<body, Absent, Absent>>, <<rating, Absent, Absent>>, badge)

Good1 == Std(<<" ", "o", "k", " ", " ", "x", "\n">>, <<"b">>, <<"4", ",", "5", " ", "s", "u", "r", " ", "5">>, TRUE)

Good2 == Std(<<>>, <<"b", "\t", "c">>, <<"4", ".", "5">>, FALSE)

Good3 == Std(<<"t">>, <<>>, Absent, TRUE)

\* title and body are white space only: both are empty once normalized
Blank == Std(<<" ", "\n">>, <<"\t">>, <<"4", ".", "5">>, TRUE)

\* no title and no body element at all: a record that carries metadata only
MetaOnly == Std(Absent, Absent, <<"n", "o", "t", "e">>, FALSE)

Broken == [Good1 EXCEPT !.throws = TRUE]

\* variant markup: no data-hook, found by the '.review' candidate only
Legacy1 ==
    Box(FALSE, {"review"}, <<Absent, <<"l", "1">>, Absent>>,
        <<Absent, Absent, <<"x">> >>, <<Absent, <<"3">>, Absent>>, FALSE)

Legacy2 ==
    Box(FALSE, {"a-section", "review"}, <<Absent, Absent, <<"h", "5">> >>,
        <<Absent, <<" ">>, Absent>>, None3, TRUE)

\* the navigation control as each of the three candidates of hasNextPage finds it
NoControl == <<"none", "none", "none">>

NextOn == <<"enabled", "none", "none">>

NextOff == <<"disabled", "enabled", "none">>

NextAlt == <<"none", "none", "enabled">>

Sites == {"spec", "endless", "mixed", "legacy", "single", "bare"}

\* the content the surface shows for page p of a site
Page(s, p) ==
    CASE s = "spec" ->
           [containers |-> CASE p = 1 -> <<Good1, Good2, Good3>>
                             [] p = 2 -> <<Good2, Good1, Good3, Good1, Good2>>
                             [] p = 4 -> <<Good3, Good1>>
                             [] OTHER -> <<>>,
            next |-> IF p < 4 THEN NextOn ELSE NextOff]
      [] s = "endless" ->
           [containers |-> <<Good1>>, next |-> NextOn]
      [] s = "mixed" ->
           [containers |-> CASE p = 1 -> <<Good1, Blank, Good2>>
                             [] p = 2 -> <<Good3, Broken, MetaOnly, Good1>>
                             [] OTHER -> <<Legacy1, Good2>>,
            next |-> IF p < 3 THEN NextAlt ELSE NoControl]
      [] s = "legacy" ->
           [containers |-> CASE p = 1 -> <<Legacy1, Legacy2>>
                             [] p = 2 -> <<Legacy2, Legacy1, Legacy1>>
                             [] OTHER -> <<>>,
            next |-> IF p < 3 THEN NextOn ELSE NextOff]
      [] s = "volatile" ->
           [containers |-> CASE p = 1 -> <<Good1, Good2>>
                             [] p = 2 -> <<>>
                             [] OTHER -> <<Good3>>,
            next |-> IF p < 4 THEN NextOn ELSE NoControl]
      [] s = "bare" ->
           [containers |-> <<Blank, MetaOnly>>, next |-> NoControl]
      [] OTHER ->
           [containers |-> <<MetaOnly, Good3>>, next |-> NoControl]

(***************************************************************************)
(* State                                                                    *)
(***************************************************************************)
VARIABLES
    site,          \* which site the surface renders (fixed in a behaviour)
    shown,         \* the page whose content the surface shows now
    pending,       \* a click was triggered and its content has not arrived
    allReviews,    \* let allReviews = []
    currentPage,   \* let currentPage = 1
    isProcessing,  \* let isProcessing = false
    pc,            \* where processAllPages is suspended: idle, wait, delay
    attempts,      \* waitForPageLoad's poll counter
    mislabelled,   \* a record was stored under a page index the surface did not show
    origin,        \* per record of allReviews: its container's position in its document
    runs,          \* accepted runs so far
    races,         \* load waits that ended before the content arrived
    extractions,   \* extraction passes of the current (or last) run
    clicks,        \* navigation clicks of the current (or last) run
    lastClick,     \* was the latest click preceded by the pacing delay
    lastWait,      \* how the latest load wait ended: found or timeout
    outcome,       \* how the latest run ended
    lastOp,        \* what the latest call logged
    returned       \* <<records>> when the step just taken was a scrapCurrentPageOnly
                   \* call returning records, <<>> after every other step

vars == <<site, shown, pending, allReviews, currentPage, isProcessing, pc,
          attempts, mislabelled, runs, races, extractions, clicks, lastClick, lastWait,
          outcome, lastOp, origin, returned>>

surfaceVars == <<site, shown, pending>>

ghostRun == <<runs, extractions, clicks, lastClick, lastWait, outcome, origin>>

\* the script has just been pasted into the console of a review page
Loaded ==
    /\ shown = 1
    /\ pending = FALSE
    /\ allReviews = <<>>
    /\ currentPage = 1
    /\ isProcessing = FALSE
    /\ pc = "idle"
    /\ attempts = 0
    /\ mislabelled = FALSE
    /\ origin = <<>>
    /\ returned = <<>>
    /\ runs = 0
    /\ races = 0
    /\ extractions = 0
    /\ clicks = 0
    /\ lastClick = "none"
    /\ lastWait = "none"
    /\ outcome = "none"
    /\ lastOp = "none"

Init == site \in Sites /\ Loaded

(***************************************************************************)
(* extractReviewsFromCurrentPage                                            *)
(***************************************************************************)
document == Page(site, shown)

\* does container c match the k-th candidate of reviewSelectors
\*   1: [data-hook="review"]   2: .review   3: .a-section.review
MatchesSelector(c, k) ==
    CASE k = 1 -> c.hook
      [] k = 2 -> "review" \in c.classes
      [] OTHER -> {"a-section", "review"} \subseteq c.classes

\* querySelectorAll: the document positions of the matching containers, in
\* document order
RECURSIVE QueryFrom(_, _, _)
QueryFrom(cs, k, i) ==
    IF i > Len(cs) THEN <<>>
    ELSE (IF MatchesSelector(cs[i], k) THEN <<i>> ELSE <<>>) \o QueryFrom(cs, k, i + 1)

querySelectorAll(k) == QueryFrom(document.containers, k, 1)

\* the loop over reviewSelectors: the first candidate with a match, else the
\* (empty) result of the last one
RECURSIVE DiscoverFrom(_)
DiscoverFrom(k) ==
    IF k = 3 \/ querySelectorAll(k) # <<>> THEN querySelectorAll(k)
    ELSE DiscoverFrom(k + 1)

reviewElements == DiscoverFrom(1)

\* the record built for container r, the index-th (from 0) of reviewElements
ReviewOf(r, index) ==
    [id |-> Len(allReviews) + index + 1,
     page |-> currentPage,
     note |-> IF FirstMatch(r.rating) = Absent THEN NoNote
              ELSE parseNote(FirstMatch(r.rating)),
     titre |-> cleanText(FirstMatch(r.title)),
     texte |-> cleanText(FirstMatch(r.body)),
     date |-> cleanText(r.date),
     auteur |-> cleanText(FirstMatch(r.author)),
     achat_verifie |-> r.badge]

\* if (review.titre || review.texte) pageReviews.push(review), unless the
\* container's processing threw (caught per container, the record is skipped)
KeepsAny(r, index) == ~r.throws

Keeps(r, index) ==
    /\ ~r.throws
    /\ (ReviewOf(r, index).titre # <<>> \/ ReviewOf(r, index).texte # <<>>)

\* reviewElements.forEach from position i on
RECURSIVE ForEachFrom(_)

ForEachStopsAtThrow(i) ==
    IF i > Len(reviewElements) THEN <<>>
    ELSE LET r == document.containers[reviewElements[i]]
         IN  IF r.throws THEN <<>>
             ELSE (IF Keeps(r, i - 1) THEN <<ReviewOf(r, i - 1)>> ELSE <<>>)
                  \o ForEachFrom(i + 1)

ForEachFrom(i) ==
    IF i > Len(reviewElements) THEN <<>>
    ELSE LET r == document.containers[reviewElements[i]]
         IN  (IF Keeps(r, i - 1) THEN <<ReviewOf(r, i - 1)>> ELSE <<>>)
             \o ForEachFrom(i + 1)

extractReviewsFromCurrentPage == ForEachFrom(1)

\* the document position of the container of each record of
\* extractReviewsFromCurrentPage
RECURSIVE PositionsFrom(_)
PositionsFrom(i) ==
    IF i > Len(reviewElements) THEN <<>>
    ELSE LET r == document.containers[reviewElements[i]]
         IN  (IF Keeps(r, i - 1) THEN <<reviewElements[i]>> ELSE <<>>)
             \o PositionsFrom(i + 1)

(***************************************************************************)
(* hasNextPage and goToNextPage                                             *)
(***************************************************************************)
\* querySelector(c1) || querySelector(c2) || querySelector(c3)
RECURSIVE FirstControl(_)
FirstControl(cands) ==
    IF cands = <<>> THEN "none"
    ELSE IF Head(cands) # "none" THEN Head(cands) ELSE FirstControl(Tail(cands))

nextButton == FirstControl(document.next)

\* nextButton && !nextButton.classList.contains('a-disabled')
hasNextPage == nextButton = "enabled"

goToNextPageFirstCandidate == Head(document.next) = "enabled"

\* the condition under which goToNextPage clicks and returns true
goToNextPage == nextButton = "enabled"

\* Can the control be gone when goToNextPage queries it, hasNextPage having
\* just found it?  Not in a browser, where both queries run in one task on one
\* document; only on the "volatile" surface, a collaborator whose answers to
\* two successive queries may differ.
ControlGone == IF site = "volatile" THEN BOOLEAN ELSE {FALSE}

(***************************************************************************)
(* processAllPages                                                          *)
(***************************************************************************)
\* allReviews = allReviews.concat(extractReviewsFromCurrentPage())
Accumulate ==
    /\ allReviews' = allReviews \o extractReviewsFromCurrentPage
    /\ origin' = origin \o PositionsFrom(1)
    /\ extractions' = extractions + 1
    /\ mislabelled' = (mislabelled \/ (extractReviewsFromCurrentPage # <<>>
                                       /\ shown # currentPage))

\* the run leaves the try block: finally { isProcessing = false }
FinishKeepsFlag(how, polls) ==
    /\ pc' = "idle"
    /\ isProcessing' = isProcessing
    /\ outcome' = how
    /\ attempts' = polls

Finish(how, polls) ==
    /\ pc' = "idle"
    /\ isProcessing' = FALSE
    /\ outcome' = how
    /\ attempts' = polls

\* The head of the while loop up to its first await:
\*   while (hasNextPage() && currentPage < MAX_PAGES) {
\*       currentPage++; if (!goToNextPage()) break; await waitForPageLoad(); ...
\* paced: the pacing delay has just elapsed; n: clicks of this run so far;
\* polls: the value the poll counter of the finished wait keeps.
WhileHeadIgnoresFailure(paced, n, polls) ==
    IF hasNextPage /\ currentPage < MAX_PAGES
    THEN /\ currentPage' = currentPage + 1
         /\ \E gone \in ControlGone :
              /\ pending' = (pending \/ (goToNextPage /\ ~gone))
              /\ clicks' = IF goToNextPage /\ ~gone THEN n + 1 ELSE n
              /\ lastClick' = IF ~(goToNextPage /\ ~gone) THEN lastClick
                              ELSE IF paced THEN "paced" ELSE "unpaced"
              /\ pc' = "wait"
              /\ attempts' = 0
              /\ isProcessing' = TRUE
              /\ outcome' = IF goToNextPage /\ ~gone THEN "running" ELSE "aborted"
    ELSE /\ currentPage' = currentPage
         /\ pending' = pending
         /\ clicks' = n
         /\ lastClick' = lastClick
         /\ Finish("completed", polls)

WhileHeadNoCeiling(paced, n, polls) ==
    IF hasNextPage
    THEN /\ currentPage' = currentPage + 1
         /\ \E gone \in ControlGone :
              IF goToNextPage /\ ~gone
              THEN /\ pending' = TRUE
                   /\ clicks' = n + 1
                   /\ lastClick' = IF paced THEN "paced" ELSE "unpaced"
                   /\ pc' = "wait"
                   /\ attempts' = 0
                   /\ isProcessing' = TRUE
                   /\ outcome' = "running"
              ELSE \* console.log('Impossible d'aller a la page suivante'); break
                   /\ pending' = pending
                   /\ clicks' = n
                   /\ lastClick' = lastClick
                   /\ Finish("aborted", polls)
    ELSE /\ currentPage' = currentPage
         /\ pending' = pending
         /\ clicks' = n
         /\ lastClick' = lastClick
         /\ Finish("completed", polls)

WhileHead(paced, n, polls) ==
    IF hasNextPage /\ currentPage < MAX_PAGES
    THEN /\ currentPage' = currentPage + 1
         /\ \E gone \in ControlGone :
              IF goToNextPage /\ ~gone
              THEN /\ pending' = TRUE
                   /\ clicks' = n + 1
                   /\ lastClick' = IF paced THEN "paced" ELSE "unpaced"
                   /\ pc' = "wait"
                   /\ attempts' = 0
                   /\ isProcessing' = TRUE
                   /\ outcome' = "running"
              ELSE \* console.log('Impossible d'aller a la page suivante'); break
                   /\ pending' = pending
                   /\ clicks' = n
                   /\ lastClick' = lastClick
                   /\ Finish("aborted", polls)
    ELSE /\ currentPage' = currentPage
         /\ pending' = pending
         /\ clicks' = n
         /\ lastClick' = lastClick
         /\ Finish("completed", polls)

\* if (isProcessing) { log; return }
Rejected ==
    /\ lastOp' = "rejected"
    /\ returned' = <<>>
    /\ UNCHANGED <<surfaceVars, allReviews, currentPage, isProcessing, pc,
                   attempts, mislabelled, races, ghostRun>>

\* isProcessing = true; the first page is extracted; the loop runs to its
\* first await or to the end
Accepted ==
    /\ runs < MaxRuns
    /\ runs' = runs + 1
    /\ lastOp' = "accepted"
    /\ returned' = <<>>
    /\ lastWait' = "none"
    /\ allReviews' = allReviews \o extractReviewsFromCurrentPage
    /\ origin' = origin \o PositionsFrom(1)
    /\ extractions' = 1
    /\ mislabelled' = (mislabelled \/ (extractReviewsFromCurrentPage # <<>>
                                       /\ shown # currentPage))
    /\ WhileHead(FALSE, 0, attempts)
    /\ UNCHANGED <<site, shown, races>>

processAllPagesUnguarded == Accepted

processAllPages == IF isProcessing THEN Rejected ELSE Accepted

(***************************************************************************)
(* waitForPageLoad: one firing of the checkLoaded timer, and, when it       *)
(* resolves the promise, the continuation of processAllPages up to its next *)
(* await                                                                    *)
(***************************************************************************)
\* document.querySelectorAll('[data-hook="review"]')
polled == querySelectorAll(1)

\* reviewElements.length > 0 || attempts >= maxAttempts, attempts incremented
ResolvesNoCeiling == polled # <<>>

Resolves == polled # <<>> \/ attempts + 1 >= maxAttempts

checkLoaded ==
    /\ pc = "wait"
    /\ returned' = <<>>
    /\ IF Resolves
       THEN /\ pending => races < MaxRaces
            /\ races' = IF pending THEN races + 1 ELSE races
            /\ lastWait' = IF polled # <<>> THEN "found" ELSE "timeout"
            /\ Accumulate
            /\ IF hasNextPage /\ currentPage < MAX_PAGES
               THEN \* await new Promise(resolve => setTimeout(resolve, DELAY_BETWEEN_PAGES))
                    /\ pc' = "delay"
                    /\ attempts' = attempts + 1
                    /\ UNCHANGED <<currentPage, pending, clicks, lastClick,
                                   isProcessing, outcome>>
               ELSE WhileHead(FALSE, clicks, attempts + 1)
            /\ UNCHANGED <<site, shown, runs, lastOp>>
       ELSE \* setTimeout(checkLoaded, 1000)
            /\ attempts' = attempts + 1
            /\ UNCHANGED <<surfaceVars, allReviews, currentPage, isProcessing,
                           pc, mislabelled, races, ghostRun, lastOp>>

\* the pacing timer fires: the loop condition is evaluated again
pacingElapsed ==
    /\ pc = "delay"
    /\ returned' = <<>>
    /\ WhileHead(TRUE, clicks, attempts)
    /\ UNCHANGED <<site, shown, allReviews, mislabelled, runs, races,
                   extractions, lastWait, lastOp, origin>>

(***************************************************************************)
(* scrapCurrentPageOnly: returns extractReviewsFromCurrentPage              *)
(***************************************************************************)
scrapCurrentPageOnlyAccumulates ==
    /\ lastOp' = "single"
    /\ returned' = <<extractReviewsFromCurrentPage>>
    /\ allReviews' = allReviews \o extractReviewsFromCurrentPage
    /\ origin' = origin \o PositionsFrom(1)
    /\ UNCHANGED <<surfaceVars, currentPage, isProcessing, pc, attempts,
                   mislabelled, races, runs, extractions, clicks, lastClick,
                   lastWait, outcome>>

scrapCurrentPageOnly ==
    /\ lastOp' = "single"
    /\ returned' = <<extractReviewsFromCurrentPage>>
    /\ UNCHANGED <<surfaceVars, allReviews, currentPage, isProcessing, pc,
                   attempts, mislabelled, races, ghostRun>>

(***************************************************************************)
(* The surface replaces its content some time after nextButton.click()      *)
(***************************************************************************)
contentArrives ==
    /\ pending
    /\ returned' = <<>>
    /\ shown' = shown + 1
    /\ pending' = FALSE
    /\ UNCHANGED <<site, allReviews, currentPage, isProcessing, pc, attempts,
                   mislabelled, races, ghostRun, lastOp>>

Next ==
    \/ processAllPages
    \/ checkLoaded
    \/ pacingElapsed
    \/ scrapCurrentPageOnly
    \/ contentArrives

Spec == Init /\ [][Next]_vars

\* the surface always answers before the load wait ends
NextPrompt == Next /\ races' = races

SpecPrompt == Init /\ [][NextPrompt]_vars

\* the script on a surface whose navigation control may be gone between the
\* query of hasNextPage and the query of goToNextPage
InitVolatile == site = "volatile" /\ Loaded

SpecVolatile == InitVolatile /\ [][Next]_vars

\* when the checkLoaded timer can fire: ENABLED <<checkLoaded>>_vars, written
\* out (a poll always moves the poll counter)
checkLoadedEnabled ==
    /\ pc = "wait"
    /\ (Resolves /\ pending) => races < MaxRaces

\* timers fire (setTimeout of lines 144, 148 and 190), and the surface
\* answers a click at some time.  The first conjunct is WF_vars(checkLoaded)
\* with its enabling condition written out.
SpecFair ==
    /\ Spec
    /\ ([]<>(~checkLoadedEnabled) \/ []<><<checkLoaded>>_vars)
    /\ WF_vars(pacingElapsed)
    /\ WF_vars(contentArrives)

\* the enabling condition is the one of the action
CheckLoadedEnabledIsEnabled == checkLoadedEnabled <=> ENABLED <<checkLoaded>>_vars

(***************************************************************************)
(* Helpers of the properties                                                *)
(***************************************************************************)
PagesOf(reviews) == [i \in 1..Len(reviews) |-> reviews[i].page]

IsPrefix(a, b) == Len(a) <= Len(b) /\ SubSeq(b, 1, Len(a)) = a

\* the variables a processAllPages call may touch
runState == <<allReviews, currentPage, isProcessing, pc, attempts, extractions,
              clicks, shown, pending>>

\* a step that is one firing of the checkLoaded timer
PollStep == pc = "wait" /\ attempts' = attempts + 1

(***************************************************************************)
(* C1: while a run is in progress (suspended in the load wait or in the     *)
(* pacing delay), a call of processAllPages is rejected: it extracts        *)
(* nothing, clicks nothing, leaves allReviews, currentPage and isProcessing *)
(* as they are, and no second run is ever accepted during the first.        *)
(***************************************************************************)
C1_SingleFlight ==
    [][isProcessing =>
          /\ runs' = runs
          /\ (processAllPages => lastOp' = "rejected" /\ UNCHANGED runState)]_vars

C1_Witness ==
    /\ isProcessing
    /\ lastOp = "rejected"
    /\ pc = "wait"
    /\ attempts > 0
    /\ allReviews # <<>>

(***************************************************************************)
(* C2: a first full run over the site whose pages hold 3, 5, 0 and 2        *)
(* containers, with a next control on pages 1-3 only, ends with 10 records  *)
(* whose page values are 1,1,1,2,2,2,2,2,4,4, after 4 extraction passes and *)
(* with currentPage = 4.                                                    *)
(***************************************************************************)
C2_SpecRun ==
    (site = "spec" /\ runs = 1 /\ ~isProcessing) =>
        /\ PagesOf(allReviews) = <<1, 1, 1, 2, 2, 2, 2, 2, 4, 4>>
        /\ currentPage = 4
        /\ extractions = 4

\* the same run when every clicked page arrives before its load wait ends
\* (checked under SpecPrompt)
C2_SpecRunPrompt == C2_SpecRun /\ races = 0

C2_SpecRunPromptWitness ==
    site = "spec" /\ runs = 1 /\ ~isProcessing /\ Len(allReviews) = 10

(***************************************************************************)
(* C3: on a site whose next control is enabled on every page, a run ends    *)
(* Completed after exactly MAX_PAGES extraction passes and MAX_PAGES - 1    *)
(* navigation clicks.                                                       *)
(***************************************************************************)
C3_Ceiling ==
    (site = "endless" /\ runs >= 1 /\ ~isProcessing /\ races = 0) =>
        /\ outcome = "completed"
        /\ extractions = MAX_PAGES
        /\ clicks = MAX_PAGES - 1

\* the same for the first run after the script is loaded
C3_CeilingFirstRun ==
    (site = "endless" /\ runs = 1 /\ ~isProcessing) =>
        /\ outcome = "completed"
        /\ extractions = MAX_PAGES
        /\ clicks = MAX_PAGES - 1
        /\ currentPage = MAX_PAGES

C3_CeilingFirstRunWitness ==
    site = "endless" /\ runs = 1 /\ ~isProcessing /\ clicks = MAX_PAGES - 1

(***************************************************************************)
(* C4: within one run, no two records of allReviews carry the same id       *)
(* (stated for the runs in which every page arrived before it was read).    *)
(***************************************************************************)
C4_UniqueIds ==
    (runs <= 1 /\ races = 0) =>
        \A i, j \in 1..Len(allReviews) :
            i # j => allReviews[i].id # allReviews[j].id

(***************************************************************************)
(* C5: every accepted run starts from a reset Run State: after the call     *)
(* has extracted its first page, the collection holds the records of that   *)
(* page only, all of them with page = 1.                                    *)
(***************************************************************************)
C5_RunStartsReset ==
    [][runs' # runs =>
          /\ allReviews' = extractReviewsFromCurrentPage
          /\ \A i \in 1..Len(allReviews') : allReviews'[i].page = 1]_vars

\* the same for the first run after the script is loaded
C5_FirstRunStartsReset ==
    [][(runs = 0 /\ runs' # runs) =>
          /\ allReviews' = extractReviewsFromCurrentPage
          /\ \A i \in 1..Len(allReviews') : allReviews'[i].page = 1]_vars

(***************************************************************************)
(* C6: every record of allReviews, and every record the extraction of the   *)
(* page now shown would return, has a title or a body that is not empty     *)
(* once trimmed; a container whose normalized title and body are both empty *)
(* gives no record.                                                         *)
(***************************************************************************)
HasText(rec) == Trim(rec.titre) # <<>> \/ Trim(rec.texte) # <<>>

\* trim, then collapse, of the text a field's candidates find ('' if none)
Normalized(cands) ==
    IF FirstMatch(cands) = Absent THEN <<>> ELSE Collapse(Trim(FirstMatch(cands)))

BothEmpty(r) == Normalized(r.title) = <<>> /\ Normalized(r.body) = <<>>

C6_Discard ==
    /\ \A i \in 1..Len(allReviews) : HasText(allReviews[i])
    /\ \A k \in 1..Len(extractReviewsFromCurrentPage) :
           HasText(extractReviewsFromCurrentPage[k])
    /\ \A i \in 1..Len(reviewElements) :
           BothEmpty(document.containers[reviewElements[i]]) =>
               \A k \in 1..Len(extractReviewsFromCurrentPage) :
                   extractReviewsFromCurrentPage[k].id # Len(allReviews) + i

\* page 1 of the mixed site: three containers, the blank one gave no record
C6_Witness ==
    /\ site = "mixed"
    /\ shown = 1
    /\ extractions = 1
    /\ Len(reviewElements) = 3
    /\ Len(allReviews) = 2

(***************************************************************************)
(* C7: no navigation click of a run happens without the pacing delay        *)
(* between the preceding page's extraction and that click.                  *)
(***************************************************************************)
C7_EveryClickPaced == lastClick # "unpaced"

\* only the first click of a run, the one after the first page, is unpaced
C7_OnlyFirstClickUnpaced ==
    /\ []((lastClick = "unpaced" /\ isProcessing) => clicks = 1)
    /\ [][(clicks' = clicks + 1 /\ clicks >= 1) => pc = "delay"]_vars

(***************************************************************************)
(* C8: every record is stored under the index of the page the surface       *)
(* showed when it was extracted, whenever the clicked content arrives.      *)
(***************************************************************************)
C8_PageIsSource == ~mislabelled

\* it holds when every clicked page arrives before its load wait ends, in
\* the first run (checked under SpecPrompt)
C8_PageIsSourcePrompt == runs <= 1 => (~mislabelled /\ (~pending => shown = currentPage))

(***************************************************************************)
(* C9: a poll of waitForPageLoad at which container discovery would find at *)
(* least one container resolves the wait; otherwise the wait resolves at    *)
(* the 30th poll, and there is never a 31st.                                *)
(***************************************************************************)
C9_ResolvesOnAnyContainer ==
    [][(PollStep /\ reviewElements # <<>>) => pc' # "wait"]_vars

\* what holds of the poll: it looks for [data-hook="review"] only
C9_ResolvesOnHookContainer ==
    [][PollStep =>
          (pc' # "wait" <=> (polled # <<>> \/ attempts' = maxAttempts))]_vars

C9_AtMostMaxAttempts == attempts <= maxAttempts

(***************************************************************************)
(* C10: the 30th poll of a wait that saw no container resolves the wait:    *)
(* the page is extracted (zero or more records are appended to the records  *)
(* accumulated so far, which are kept), the run is not aborted, and the     *)
(* loop goes on by hasNextPage: to the pacing delay and the next page, or   *)
(* to a Completed end.                                                      *)
(***************************************************************************)
TimeoutStep == PollStep /\ polled = <<>> /\ attempts' >= maxAttempts

C10_TimeoutContinues ==
    [][TimeoutStep =>
          /\ lastWait' = "timeout"
          /\ extractions' = extractions + 1
          /\ IsPrefix(allReviews, allReviews')
          /\ Len(allReviews') = Len(allReviews) + Len(extractReviewsFromCurrentPage)
          /\ outcome' # "aborted"
          /\ IF hasNextPage /\ currentPage < MAX_PAGES
             THEN pc' = "delay" /\ isProcessing'
             ELSE pc' = "idle" /\ outcome' = "completed"]_vars

\* after a timeout on the empty third page, the run is waiting for page 4
\* with the 8 records of pages 1 and 2 kept
C10_Witness ==
    /\ site = "spec"
    /\ lastWait = "timeout"
    /\ pc = "wait"
    /\ currentPage = 4
    /\ Len(allReviews) = 8

(***************************************************************************)
(* C11: every accepted run terminates when timers fire: a run in progress   *)
(* leads to a state where isProcessing is false again (so a later call is   *)
(* not rejected).  While it runs it is suspended in the load wait or in the *)
(* pacing delay only, and each timer step lowers a measure bounded by the   *)
(* page ceiling and the poll ceiling.                                       *)
(***************************************************************************)
\* steps the run can still take: pages left, then polls left in this wait
Measure ==
    CASE pc = "wait" ->
           (MAX_PAGES - currentPage) * (maxAttempts + 2) + (maxAttempts - attempts) + 1
      [] pc = "delay" -> (MAX_PAGES - currentPage) * (maxAttempts + 2)
      [] OTHER -> 0

C11_BoundedSuspensions ==
    /\ [](isProcessing <=> pc \in {"wait", "delay"})
    /\ [](isProcessing => Measure > 0)
    /\ [](pc = "wait" => attempts < maxAttempts)
    /\ [][(isProcessing /\ (pc' # pc \/ attempts' # attempts \/ currentPage' # currentPage))
             => Measure' < Measure]_vars

FailureStep == outcome' = "aborted" /\ (isProcessing \/ runs' # runs)

C12_AbortKeepsRecords ==
    /\ [][FailureStep =>
             /\ hasNextPage
             /\ pc' = "idle" /\ ~isProcessing'
             /\ UNCHANGED <<shown, pending>>
             /\ IF isProcessing
                THEN UNCHANGED <<allReviews, extractions, clicks>>
                ELSE /\ allReviews' = allReviews \o extractReviewsFromCurrentPage
                     /\ extractions' = 1
                     /\ clicks' = 0]_vars
    /\ [][(~isProcessing /\ runs' = runs) =>
             UNCHANGED <<allReviews, extractions, clicks, currentPage, pc,
                         isProcessing>>]_vars

\* a run aborted after its third page, with the records of pages 1 and 3
C12_Witness ==
    /\ outcome = "aborted"
    /\ ~isProcessing
    /\ extractions = 3
    /\ clicks = 2
    /\ Len(allReviews) = 3
    /\ races = 0

(***************************************************************************)
(* C13: allReviews is ordered by (page index, in-page index): the page      *)
(* values never decrease along the collection and records with the same     *)
(* page value stand in the document order of their containers.              *)
(***************************************************************************)
C13_Ordered ==
    \A i, j \in 1..Len(allReviews) :
        i < j =>
            /\ allReviews[i].page <= allReviews[j].page
            /\ allReviews[i].page = allReviews[j].page => origin[i] < origin[j]

\* the same for the first run after the script is loaded
C13_OrderedFirstRun == runs <= 1 => C13_Ordered

\* records are appended only: never removed, never reordered
C13_AppendOnly ==
    /\ [](Len(origin) = Len(allReviews))
    /\ [][IsPrefix(allReviews, allReviews')]_vars

(***************************************************************************)
(* C14: a container whose processing throws gives no record, and every      *)
(* other container of the page gives its record unless its normalized title *)
(* and body are both empty; the extraction pass appends exactly these       *)
(* records, and the run goes on.                                            *)
(***************************************************************************)
containerAt(i) == document.containers[reviewElements[i]]

\* the containers of the page that must give a record
Yielding == {i \in 1..Len(reviewElements) :
                ~containerAt(i).throws /\ ~BothEmpty(containerAt(i))}

RecordFor(i) ==
    {k \in 1..Len(extractReviewsFromCurrentPage) :
        extractReviewsFromCurrentPage[k].id = Len(allReviews) + i}

C14_Isolation ==
    /\ [](\A i \in 1..Len(reviewElements) :
            /\ containerAt(i).throws => RecordFor(i) = {}
            /\ i \in Yielding =>
                 \E k \in RecordFor(i) :
                    /\ extractReviewsFromCurrentPage[k].titre = Normalized(containerAt(i).title)
                    /\ extractReviewsFromCurrentPage[k].texte = Normalized(containerAt(i).body))
    /\ [][extractions' # extractions =>
             Len(allReviews') = Len(allReviews) + Cardinality(Yielding)]_vars

\* the mixed site: page 2 holds a throwing container between good ones; the
\* run went on to page 3 and ended with 2 + 2 + 1 records
C14_Witness ==
    /\ site = "mixed"
    /\ races = 0
    /\ runs = 1
    /\ ~isProcessing
    /\ currentPage = 3
    /\ PagesOf(allReviews) = <<1, 1, 2, 2, 3>>

(***************************************************************************)
(* C15: a record's rating is 4.5 when the rating text of its container      *)
(* holds "4,5" or "4.5", and is absent when the text holds no digit (or     *)
(* there is no rating element).  Ratings are counted in tenths.             *)
(***************************************************************************)
ratingText(r) == FirstMatch(r.rating)

Holds45(text, seps) ==
    /\ text # Absent
    /\ \E k \in 1..(Len(text) - 2) :
          text[k] = "4" /\ text[k + 1] \in seps /\ text[k + 2] = "5"

NoDigit(text) == text = Absent \/ \A k \in 1..Len(text) : text[k] \notin Digits

NoteAsClaimed(r, note, seps) ==
    /\ Holds45(ratingText(r), seps) => note = 45
    /\ NoDigit(ratingText(r)) => note = NoNote

\* the records an extraction pass appends carry the rating as claimed
RatingsOfPass(seps) ==
    extractions' # extractions =>
        \A i \in Yielding :
            \E k \in (Len(allReviews) + 1)..Len(allReviews') :
                /\ allReviews'[k].id = Len(allReviews) + i
                /\ NoteAsClaimed(containerAt(i), allReviews'[k].note, seps)

C15_RatingParsed == [][RatingsOfPass({",", "."})]_vars

\* with the comma alone the claim holds
C15_CommaParsed == [][RatingsOfPass({","})]_vars

(***************************************************************************)
(* C16: a scrapCurrentPageOnly call returns the records of the page shown   *)
(* and changes nothing else: no click, no wait, and allReviews, currentPage *)
(* and isProcessing stay as they were, idle or with a run suspended.        *)
(***************************************************************************)
singleStep == returned' # <<>>

C16_SinglePageFrame ==
    [][singleStep =>
         /\ returned' = <<extractReviewsFromCurrentPage>>
         /\ UNCHANGED <<allReviews, currentPage, isProcessing>>
         /\ UNCHANGED <<shown, pending, clicks, lastClick>>
         /\ UNCHANGED <<pc, attempts, lastWait, extractions, runs, outcome>>]_vars

\* called while a run is suspended in its load wait, with records returned
C16_Witness ==
    /\ returned # <<>>
    /\ Len(returned[1]) = 2
    /\ lastOp = "single"
    /\ isProcessing
    /\ pc = "wait"
    /\ attempts > 0

\* and called while idle
C16_WitnessIdle ==
    /\ returned # <<>>
    /\ returned[1] # <<>>
    /\ ~isProcessing
    /\ runs = 0

(***************************************************************************)
(* C17: when a run has ended, the summary's verified ratio is the number of *)
(* records with achat_verifie over the total, a value between 0 and 1, and  *)
(* it is 0 when there is no record.  The summary of the code is what lines  *)
(* 202-211 log; its last line writes the two counts around a '/'.           *)
(***************************************************************************)
verifiedCount == Cardinality({i \in 1..Len(allReviews) : allReviews[i].achat_verifie})

\* `${allReviews.filter(r => r.achat_verifie).length}/${allReviews.length}`
Statistiques == [total |-> Len(allReviews),
                 verifies |-> <<verifiedCount, Len(allReviews)>>]

runEnded == ~isProcessing /\ runs > 0

\* the fraction num/den is a number and it is the ratio v/t, 0 when t = 0
IsRatioOf(num, den, v, t) ==
    /\ den # 0
    /\ 0 <= num /\ num <= den
    /\ IF t = 0 THEN num = 0 ELSE num * t = v * den

C17_VerifiedRatio ==
    runEnded =>
        IsRatioOf(Statistiques.verifies[1], Statistiques.verifies[2],
                  verifiedCount, Statistiques.total)

\* with at least one record the logged fraction is the ratio
C17_RatioWhenSome == (runEnded /\ allReviews # <<>>) => C17_VerifiedRatio

(***************************************************************************)
(* C18: currentPage never decreases and never exceeds MAX_PAGES, whatever   *)
(* is called and however often; and a click is triggered only from a state  *)
(* where hasNextPage held and currentPage was below MAX_PAGES, the counter  *)
(* being advanced by one in the same step.                                  *)
(***************************************************************************)
\* the load wait is entered by a click, and by nothing else
clickStep == pc' = "wait" /\ pc # "wait"

C18_PageCounter ==
    /\ [](currentPage \in 1..MAX_PAGES)
    /\ [][currentPage' >= currentPage]_vars
    /\ [][clickStep => /\ hasNextPage
                       /\ currentPage < MAX_PAGES
                       /\ currentPage' = currentPage + 1]_vars
    /\ [][(pending' /\ ~pending) => clickStep]_vars

\* a second run called at the ceiling has ended: the counter stayed at
\* MAX_PAGES and nothing was clicked
C18_Witness ==
    /\ site = "endless"
    /\ currentPage = MAX_PAGES
    /\ runs = 2
    /\ clicks = 0
    /\ ~isProcessing
    /\ outcome = "completed"

(***************************************************************************)
(* C19: on one surface state goToNextPage clicks and returns true exactly   *)
(* when hasNextPage is true; the loop does not yield between the two, so on *)
(* a surface that does not change between them every entry into the loop    *)
(* body clicks and no run ends by a navigation failure.                     *)
(***************************************************************************)
C19_SameControl ==
    /\ [](hasNextPage <=> goToNextPage)
    /\ [][currentPage' # currentPage => clickStep]_vars
    /\ [](outcome # "aborted")

\* the control is found by the third candidate only, and was clicked twice
C19_Witness ==
    /\ site = "mixed"
    /\ document.next = NextAlt
    /\ hasNextPage
    /\ clicks = 2
    /\ lastClick = "paced"
    /\ pending

\* the first candidate finds a disabled control and a later one an enabled
\* control: neither function goes on
C19_WitnessDisabled ==
    /\ document.next = NextOff
    /\ ~hasNextPage
    /\ outcome = "completed"
    /\ extractions = 4

(***************************************************************************)
(* C20: when a run has ended, however it ended, the page count it reports   *)
(* (currentPage, line 195) is the number of extraction passes of that run.  *)
(***************************************************************************)
C20_ReportedPages == runEnded => currentPage = extractions

\* it holds for a first run that ends by exhaustion or at the ceiling
C20_ReportedPagesFirstRun ==
    (runEnded /\ runs = 1 /\ outcome = "completed") => currentPage = extractions

\* a run ended by a navigation failure reports one page more than it
\* extracted: currentPage++ precedes the failed goToNextPage
C20_AbortedReportsOneMore ==
    (runEnded /\ runs = 1 /\ outcome = "aborted") => currentPage = extractions + 1

====
